---- MODULE Spec2Model ----
(***************************************************************************)
(* Gold forecast pipeline: data alignment (fetch_all_data), feature        *)
(* derivation (preprocess_data), the GoldForecastModel wrapper around      *)
(* Prophet (fit / predict / evaluate), the insight synthesizer             *)
(* (generate_insights), the sentiment attachment done by the job and the   *)
(* bot, the bot's /price handler and the loading of main.py.               *)
(*                                                                         *)
(* Numbers.  The program computes with float64 (numpy scalars taken out of *)
(* pandas frames).  A number is modelled as a fraction [n, d] with d >= 0: *)
(* d > 0 is the finite value n/d, [1,0] is +inf, [-1,0] is -inf and [0,0]  *)
(* is NaN, so that division by zero gives what numpy gives (inf or nan     *)
(* with a warning, no exception).  Rounding is not modelled.               *)
(***************************************************************************)
EXTENDS Integers, Sequences, FiniteSets, TLC

VARIABLES
    entry,       \* which entry point runs: "job", "bot" (/forecast), "price"
                 \* (the bot's /price), "main" or "client"
    pc,          \* position of the running entry point / call
    exc,         \* name of the exception that ended the last call, "" if none
    last_call,   \* the last call made on the model and its arguments
    download,    \* frame returned by yf.download: rows of Close per ticker
    raw_df,      \* table returned by fetch_all_data
    process_df,  \* table returned by preprocess_data
    is_fitted,   \* GoldForecastModel.is_fitted
    history,     \* Prophet.history: <<>> or <<table it was fitted on>>
    params,      \* Prophet's fitted parameters: <<>> or <<p>>
    future,      \* frame of regressors handed to Prophet.predict
    forecast_df, \* table returned by GoldForecastModel.predict
    metrics,     \* table returned by GoldForecastModel.evaluate: <<>> or <<m>>
    insights,    \* <<>> or <<dict returned by generate_insights>>
    sentiment,   \* <<>> or <<dict returned by analyze_gold_headlines>>
    signals      \* <<>> or <<the signals price_command puts in its reply>>

vars == <<entry, pc, exc, last_call, download, raw_df, process_df, is_fitted, history,
          params, future, forecast_df, metrics, insights, sentiment, signals>>

-----------------------------------------------------------------------------
(* float64 arithmetic on fractions *)

Num(i) == [n |-> i, d |-> 1]
NaN == [n |-> 0, d |-> 0]
PosInf == [n |-> 1, d |-> 0]
NegInf == [n |-> -1, d |-> 0]

IsNaN(x) == x.n = 0 /\ x.d = 0
IsFinite(x) == x.d > 0

Sign(i) == IF i > 0 THEN 1 ELSE IF i < 0 THEN -1 ELSE 0

\* a - b
FSub(a, b) ==
    IF IsFinite(a) /\ IsFinite(b)
    THEN [n |-> a.n * b.d - b.n * a.d, d |-> a.d * b.d]
    ELSE IF IsNaN(a) \/ IsNaN(b) THEN NaN
    ELSE IF ~IsFinite(a) /\ ~IsFinite(b)
         THEN (IF a.n = b.n THEN NaN ELSE a)
    ELSE IF ~IsFinite(a) THEN a
    ELSE [n |-> -b.n, d |-> 0]

\* a / b; a finite value over zero is +-inf, zero over zero is NaN
FDiv(a, b) ==
    IF IsNaN(a) \/ IsNaN(b) THEN NaN
    ELSE IF ~IsFinite(a) /\ ~IsFinite(b) THEN NaN
    ELSE IF ~IsFinite(a) THEN [n |-> a.n * (IF b.n < 0 THEN -1 ELSE 1), d |-> 0]
    ELSE IF ~IsFinite(b) THEN Num(0)
    ELSE IF b.n = 0 THEN [n |-> Sign(a.n), d |-> 0]
    ELSE IF b.n > 0 THEN [n |-> a.n * b.d, d |-> a.d * b.n]
    ELSE [n |-> -(a.n * b.d), d |-> a.d * (-b.n)]

\* a * k for an integer k > 0
FScale(a, k) == IF IsFinite(a) THEN [n |-> a.n * k, d |-> a.d] ELSE a

\* a > b; every comparison with NaN is false
FGt(a, b) ==
    IF IsNaN(a) \/ IsNaN(b) THEN FALSE
    ELSE IF ~IsFinite(a) /\ ~IsFinite(b) THEN a.n > b.n
    ELSE a.n * b.d > b.n * a.d

FLt(a, b) == FGt(b, a)

-----------------------------------------------------------------------------
(* generate_insights.  A label is written without the pictograph that ends  *)
(* it in the source.                                                       *)

StrongPct == [n |-> 3, d |-> 2]       \* the literal 1.5
NegStrongPct == [n |-> -3, d |-> 2]   \* the literal -1.5
RsiOversold == 30
RsiOverbought == 70

pct_change_of(predicted_price, current_price) ==
    FScale(FDiv(FSub(predicted_price, current_price), current_price), 100)

\* the thresholds taken inclusively
forecast_trend_inclusive(pct_change) ==
    IF ~FLt(pct_change, StrongPct) THEN "Strong Bullish"
    ELSE IF FGt(pct_change, Num(0)) THEN "Slightly Bullish"
    ELSE IF FLt(pct_change, NegStrongPct) THEN "Strong Bearish"
    ELSE "Slightly Bearish"

forecast_trend_of(pct_change) ==
    IF FGt(pct_change, StrongPct) THEN "Strong Bullish"
    ELSE IF FGt(pct_change, Num(0)) THEN "Slightly Bullish"
    ELSE IF FLt(pct_change, NegStrongPct) THEN "Strong Bearish"
    ELSE "Slightly Bearish"

\* the boundaries 30 and 70 taken as signals
rsi_signal_inclusive(rsi_14) ==
    IF ~FGt(rsi_14, Num(RsiOversold)) THEN "OVERSOLD (Consider Buying)"
    ELSE IF ~FLt(rsi_14, Num(RsiOverbought)) THEN "OVERBOUGHT (Consider Selling)"
    ELSE "NEUTRAL"

rsi_signal_of(rsi_14) ==
    IF FLt(rsi_14, Num(RsiOversold)) THEN "OVERSOLD (Consider Buying)"
    ELSE IF FGt(rsi_14, Num(RsiOverbought)) THEN "OVERBOUGHT (Consider Selling)"
    ELSE "NEUTRAL"

\* the trend read from the price against SMA20 alone
tech_trend_price_only(current_price, sma_20, sma_50) ==
    IF FGt(current_price, sma_20)
    THEN [tech_trend |-> "STRONG UPTREND", action |-> "BUY / HOLD"]
    ELSE IF FLt(current_price, sma_20)
    THEN [tech_trend |-> "STRONG DOWNTREND", action |-> "SELL"]
    ELSE [tech_trend |-> "CONSOLIDATING", action |-> "WAIT"]

tech_trend_of(current_price, sma_20, sma_50) ==
    IF FGt(current_price, sma_20) /\ FGt(sma_20, sma_50)
    THEN [tech_trend |-> "STRONG UPTREND", action |-> "BUY / HOLD"]
    ELSE IF FLt(current_price, sma_20) /\ FLt(sma_20, sma_50)
    THEN [tech_trend |-> "STRONG DOWNTREND", action |-> "SELL"]
    ELSE [tech_trend |-> "CONSOLIDATING", action |-> "WAIT"]

Last(s) == s[Len(s)]

\* bot.py, price_command: the same signals as generate_insights, written out
\* again in the handler
price_rsi_signal(rsi_14) ==
    IF FLt(rsi_14, Num(RsiOversold)) THEN "OVERSOLD (Consider Buying)"
    ELSE IF FGt(rsi_14, Num(RsiOverbought)) THEN "OVERBOUGHT (Consider Selling)"
    ELSE "NEUTRAL"

\* a trend called when either comparison of a pair holds
price_tech_trend_either(current_price, sma_20, sma_50) ==
    IF FGt(current_price, sma_20) \/ FGt(sma_20, sma_50)
    THEN [tech_trend |-> "STRONG UPTREND", action |-> "BUY / HOLD"]
    ELSE IF FLt(current_price, sma_20) \/ FLt(sma_20, sma_50)
    THEN [tech_trend |-> "STRONG DOWNTREND", action |-> "SELL"]
    ELSE [tech_trend |-> "CONSOLIDATING", action |-> "WAIT"]

price_tech_trend(current_price, sma_20, sma_50) ==
    IF FGt(current_price, sma_20) /\ FGt(sma_20, sma_50)
    THEN [tech_trend |-> "STRONG UPTREND", action |-> "BUY / HOLD"]
    ELSE IF FLt(current_price, sma_20) /\ FLt(sma_20, sma_50)
    THEN [tech_trend |-> "STRONG DOWNTREND", action |-> "SELL"]
    ELSE [tech_trend |-> "CONSOLIDATING", action |-> "WAIT"]

\* what price_command reads off the latest row of a non-empty table
price_signals(process_df_) ==
    LET latest_hist == Last(process_df_)
        tt == price_tech_trend(latest_hist.y, latest_hist.SMA_20, latest_hist.SMA_50)
    IN  [current_price |-> latest_hist.y,
         sma_20 |-> latest_hist.SMA_20,
         sma_50 |-> latest_hist.SMA_50,
         rsi_14 |-> latest_hist.RSI_14,
         rsi_signal |-> price_rsi_signal(latest_hist.RSI_14),
         tech_trend |-> tt.tech_trend,
         action |-> tt.action]

\* the dict returned for non-empty tables
generate_insights(forecast, historical_data, days_ahead) ==
    LET latest_hist == Last(historical_data)
        current_price == latest_hist.y
        future_pred == Last(forecast)
        predicted_price == future_pred.yhat
        pct_change == pct_change_of(predicted_price, current_price)
        tt == tech_trend_of(current_price, latest_hist.SMA_20, latest_hist.SMA_50)
    IN  [current_price |-> current_price,
         predicted_price |-> predicted_price,
         lower_bound |-> future_pred.yhat_lower,
         upper_bound |-> future_pred.yhat_upper,
         days_ahead |-> days_ahead,
         forecast_trend |-> forecast_trend_of(pct_change),
         pct_change |-> pct_change,
         sma_20 |-> latest_hist.SMA_20,
         sma_50 |-> latest_hist.SMA_50,
         rsi_14 |-> latest_hist.RSI_14,
         rsi_signal |-> rsi_signal_of(latest_hist.RSI_14),
         tech_trend |-> tt.tech_trend,
         action |-> tt.action]

-----------------------------------------------------------------------------
(* analyze_gold_headlines *)

OptimisticScore == [n |-> 2, d |-> 10]      \* the literal 0.2
PessimisticScore == [n |-> -2, d |-> 10]    \* the literal -0.2

RECURSIVE total_score_of(_)
\* sum of the compound scores (in tenths) of the articles that have a title
total_score_of(news) ==
    IF news = <<>> THEN 0
    ELSE (IF Last(news).title THEN Last(news).compound ELSE 0)
         + total_score_of(SubSeq(news, 1, Len(news) - 1))

valid_articles_of(news) == Cardinality({i \in 1..Len(news) : news[i].title})

sentiment_label_of(avg_score) ==
    IF FGt(avg_score, OptimisticScore) THEN "Optimistic"
    ELSE IF FLt(avg_score, PessimisticScore) THEN "Pessimistic"
    ELSE "Neutral"

NoData == [score |-> Num(0), label |-> "No Data", article_count |-> 0]

\* news_raises: fetching or scoring the headlines raised an exception
analyze_gold_headlines(news, news_raises) ==
    IF news_raises
    THEN [score |-> Num(0), label |-> "Error", article_count |-> 0]
    ELSE IF news = <<>> THEN NoData
    ELSE IF valid_articles_of(news) = 0 THEN NoData
    ELSE LET avg_score == FDiv([n |-> total_score_of(news), d |-> 10],
                               Num(valid_articles_of(news)))
         IN  [score |-> avg_score,
              label |-> sentiment_label_of(avg_score),
              article_count |-> valid_articles_of(news)]

\* d[k] = v on a dict
DictSet(dict, k, v) == [x \in DOMAIN dict \cup {k} |-> IF x = k THEN v ELSE dict[x]]

\* an attachment that lets a pessimistic sentiment decide the action
attach_sentiment_weighted(ins, sent) ==
    DictSet(DictSet(DictSet(DictSet(ins, "sentiment_label", sent.label),
                            "sentiment_score", sent.score),
                    "sentiment_count", sent.article_count),
            "action", IF sent.label = "Pessimistic" THEN "SELL" ELSE ins.action)

\* the three assignments the job and the bot make after generate_insights
attach_sentiment(ins, sent) ==
    DictSet(DictSet(DictSet(ins, "sentiment_label", sent.label),
                    "sentiment_score", sent.score),
            "sentiment_count", sent.article_count)

-----------------------------------------------------------------------------
(* Tables.  A table is a sequence of rows in ascending, unique date order  *)
(* (the frames come from one date index); ds is a day number.              *)

FeatureRow(ds, y, sma_20, sma_50, rsi_14, usd, tnx) ==
    [ds |-> ds, y |-> y, SMA_20 |-> sma_20, SMA_50 |-> sma_50,
     RSI_14 |-> rsi_14, USD_Index |-> usd, Treasury_Yield |-> tnx]

Dates(df) == [i \in 1..Len(df) |-> df[i].ds]

\* a + b for finite a, b
FAdd(a, b) == [n |-> a.n * b.d + b.n * a.d, d |-> a.d * b.d]

-----------------------------------------------------------------------------
(* Prophet, as GoldForecastModel uses it.  The fitted parameters are an    *)
(* opaque result of the optimizer: an additive model with a linear trend   *)
(* (m, k) and one coefficient for the regressors (beta).                   *)

\* Prophet.make_future_dataframe(periods): the dates it was fitted on, then
\* `periods` daily dates after the last of them
make_future_dataframe(history_dates, periods) ==
    history_dates \o [j \in 1..periods |-> Last(history_dates) + j]

\* Prophet.predict on one row of the future frame; w is the half-width of the
\* sampled uncertainty band
ProphetPredictRow(p, row, w) ==
    LET yhat == FAdd(Num(p.m + p.k * row.ds),
                     FScale(FAdd(row.USD_Index, row.Treasury_Yield), p.beta))
    IN  [ds |-> row.ds, yhat |-> yhat,
         yhat_lower |-> FSub(yhat, Num(w)), yhat_upper |-> FAdd(yhat, Num(w))]

ProphetPredict(p, fut, w) == [i \in 1..Len(fut) |-> ProphetPredictRow(p, fut[i], w)]

\* Prophet refuses a frame with a NaN regressor
HasNaNRegressor(df) ==
    \E i \in 1..Len(df) : IsNaN(df[i].USD_Index) \/ IsNaN(df[i].Treasury_Yield)

\* number of rows whose target is not null
NonNullRows(df) == Cardinality({i \in 1..Len(df) : ~IsNaN(df[i].y)})

\* prophet.diagnostics.cross_validation: the cutoffs of the rolling-origin
\* backtest, latest first, from (last date - horizon) down in steps of period
\* while at least `initial` days of history precede the cutoff
RECURSIVE generate_cutoffs(_, _, _)
generate_cutoffs(cutoff, min_cutoff, period) ==
    IF cutoff < min_cutoff THEN <<>>
    ELSE generate_cutoffs(cutoff - period, min_cutoff, period) \o <<cutoff>>

-----------------------------------------------------------------------------
(* GoldForecastModel *)

\* value of column `col` of historical_df at date d, NaN when df has no such
\* row: the left merge on ds of predict
MergeLookup(historical_df, d, col) ==
    IF \E i \in 1..Len(historical_df) : historical_df[i].ds = d
    THEN historical_df[CHOOSE i \in 1..Len(historical_df) : historical_df[i].ds = d][col]
    ELSE NaN

fillna(v, fill) == IF IsNaN(v) THEN fill ELSE v

\* predict without the merge that restores the historical regressor values
future_frame_unmerged(history_dates, historical_df, days_ahead) ==
    LET dates == make_future_dataframe(history_dates, days_ahead)
    IN  [i \in 1..Len(dates) |->
            [ds |-> dates[i],
             USD_Index |-> Last(historical_df).USD_Index,
             Treasury_Yield |-> Last(historical_df).Treasury_Yield]]

\* the frame `future` predict hands to Prophet.predict
future_frame(history_dates, historical_df, days_ahead) ==
    LET dates == make_future_dataframe(history_dates, days_ahead)
        last_usd == Last(historical_df).USD_Index
        last_tnx == Last(historical_df).Treasury_Yield
    IN  [i \in 1..Len(dates) |->
            [ds |-> dates[i],
             USD_Index |-> fillna(MergeLookup(historical_df, dates[i], "USD_Index"), last_usd),
             Treasury_Yield |->
                 fillna(MergeLookup(historical_df, dates[i], "Treasury_Yield"), last_tnx)]]

\* fit on an object that lets itself be fitted again
fit_again(df, fitted_params, optimizer_fails) ==
    IF NonNullRows(df) < 2 \/ HasNaNRegressor(df)
    THEN /\ exc' = "ValueError: Prophet.fit"
         /\ UNCHANGED <<is_fitted, history, params>>
    ELSE IF optimizer_fails
    THEN /\ exc' = "RuntimeError: optimizer"
         /\ history' = <<df>>
         /\ is_fitted' = FALSE
         /\ UNCHANGED params
    ELSE /\ exc' = ""
         /\ history' = <<df>>
         /\ params' = <<fitted_params>>
         /\ is_fitted' = TRUE

\* fit that sets is_fitted before it hands the table to Prophet
fit_marking_first(df, fitted_params, optimizer_fails) ==
    IF history # <<>>
    THEN /\ exc' = "Exception: Prophet object can only be fit once"
         /\ UNCHANGED <<is_fitted, history, params>>
    ELSE IF NonNullRows(df) < 2 \/ HasNaNRegressor(df)
    THEN /\ exc' = "ValueError: Prophet.fit"
         /\ is_fitted' = TRUE
         /\ UNCHANGED <<history, params>>
    ELSE IF optimizer_fails
    THEN /\ exc' = "RuntimeError: optimizer"
         /\ history' = <<df>>
         /\ is_fitted' = TRUE
         /\ UNCHANGED params
    ELSE /\ exc' = ""
         /\ history' = <<df>>
         /\ params' = <<fitted_params>>
         /\ is_fitted' = TRUE

\* GoldForecastModel.fit(df).  Prophet.fit raises when the object was fitted
\* before, when df has fewer than 2 non-null rows or a NaN regressor; it
\* keeps the frame as its history and then runs the optimizer, which may fail.
fit(df, fitted_params, optimizer_fails) ==
    IF history # <<>>
    THEN /\ exc' = "Exception: Prophet object can only be fit once"
         /\ UNCHANGED <<is_fitted, history, params>>
    ELSE IF NonNullRows(df) < 2 \/ HasNaNRegressor(df)
    THEN /\ exc' = "ValueError: Prophet.fit"
         /\ UNCHANGED <<is_fitted, history, params>>
    ELSE IF optimizer_fails
    THEN /\ exc' = "RuntimeError: optimizer"
         /\ history' = <<df>>
         /\ UNCHANGED <<is_fitted, params>>
    ELSE /\ exc' = ""
         /\ history' = <<df>>
         /\ params' = <<fitted_params>>
         /\ is_fitted' = TRUE

\* GoldForecastModel.predict(historical_df, days_ahead)
predict(historical_df, days_ahead, w) ==
    IF ~is_fitted
    THEN /\ exc' = "ValueError: Model must be fitted before predicting."
         /\ UNCHANGED <<future, forecast_df>>
    ELSE IF Len(historical_df) = 0
    THEN /\ exc' = "IndexError"
         /\ UNCHANGED <<future, forecast_df>>
    ELSE LET fut == future_frame(Dates(history[1]), historical_df, days_ahead)
         IN  IF HasNaNRegressor(fut)
             THEN /\ exc' = "ValueError: Prophet.predict"
                  /\ UNCHANGED <<future, forecast_df>>
             ELSE /\ exc' = ""
                  /\ future' = fut
                  /\ forecast_df' = ProphetPredict(params[1], fut, w)

\* evaluate guarded by Prophet's history instead of is_fitted
evaluate_by_history(initial, period, horizon) ==
    IF history = <<>>
    THEN /\ exc' = "ValueError: Model must be fitted before evaluating."
         /\ UNCHANGED metrics
    ELSE LET h == history[1]
             cutoffs == generate_cutoffs(Last(h).ds - horizon, h[1].ds + initial, period)
         IN  IF cutoffs = <<>>
             THEN /\ exc' = "ValueError: cross_validation"
                  /\ UNCHANGED metrics
             ELSE /\ exc' = ""
                  /\ metrics' = <<[cutoffs |-> cutoffs, horizon |-> horizon]>>

\* GoldForecastModel.evaluate(initial, period, horizon), in days
evaluate(initial, period, horizon) ==
    IF ~is_fitted
    THEN /\ exc' = "ValueError: Model must be fitted before evaluating."
         /\ UNCHANGED metrics
    ELSE LET h == history[1]
             cutoffs == generate_cutoffs(Last(h).ds - horizon, h[1].ds + initial, period)
         IN  IF cutoffs = <<>>
             THEN /\ exc' = "ValueError: cross_validation"
                  /\ UNCHANGED metrics
             ELSE /\ exc' = ""
                  /\ metrics' = <<[cutoffs |-> cutoffs, horizon |-> horizon]>>

-----------------------------------------------------------------------------
(* A client of one GoldForecastModel instance that holds a feature table   *)
(* (process_df) and calls fit, predict and evaluate in any order, with the *)
(* table as it is or as it was one row earlier; predict is also called     *)
(* with an empty table.                                                    *)

MaxDate == 3        \* client tables hold a subset of the days 1..MaxDate
MaxDays == 2        \* days_ahead ranges over 0..MaxDays
Widths == {1, 2}
Params == [m : {200}, k : {0}, beta : {0, 1}]

NoCall == [op |-> "", df |-> <<>>, days |-> 0]

\* row of day d carrying regressor choice c (1 or 2)
ClientRow(d, c) ==
    FeatureRow(d, Num(200), Num(200), Num(200), Num(50), Num(c), Num(c + 3))

RECURSIVE TableOf(_, _)
\* the table with a row for each day d <= n with c[d] # 0
TableOf(c, n) ==
    IF n = 0 THEN <<>>
    ELSE TableOf(c, n - 1) \o (IF c[n] = 0 THEN <<>> ELSE <<ClientRow(n, c[n])>>)

ClientTables == {TableOf(c, MaxDate) : c \in [1..MaxDate -> 0..2]}

ButLast(df) == SubSeq(df, 1, Len(df) - 1)

\* the tables the client passes
Versions(df) == {df, ButLast(df)}

InitModel ==
    /\ is_fitted = FALSE
    /\ history = <<>>
    /\ params = <<>>
    /\ future = <<>>
    /\ forecast_df = <<>>
    /\ metrics = <<>>
    /\ last_call = NoCall

InitClient ==
    /\ entry = "client"
    /\ pc = "client"
    /\ exc = ""
    /\ download = [raises |-> FALSE, rows |-> <<>>]
    /\ raw_df = <<>>
    /\ process_df \in ClientTables
    /\ insights = <<>>
    /\ sentiment = <<>>
    /\ signals = <<>>
    /\ InitModel

ClientFit ==
    /\ pc = "client"
    /\ \E df \in Versions(process_df), p \in Params, optimizer_fails \in BOOLEAN :
          /\ fit(df, p, optimizer_fails)
          /\ last_call' = [op |-> "fit", df |-> df, days |-> 0]
    /\ UNCHANGED signals
    /\ UNCHANGED <<entry, pc, download, raw_df, process_df, future, forecast_df,
                   metrics, insights, sentiment>>

ClientPredict ==
    /\ pc = "client"
    /\ \E df \in Versions(process_df) \cup {<<>>}, days_ahead \in 0..MaxDays, w \in Widths :
          /\ predict(df, days_ahead, w)
          /\ last_call' = [op |-> "predict", df |-> df, days |-> days_ahead]
    /\ UNCHANGED signals
    /\ UNCHANGED <<entry, pc, download, raw_df, process_df, is_fitted, history,
                   params, metrics, insights, sentiment>>

ClientEvaluate ==
    /\ pc = "client"
    /\ \E horizon \in {1} :
          /\ evaluate(1, 1, horizon)
          /\ last_call' = [op |-> "evaluate", df |-> <<>>, days |-> horizon]
    /\ UNCHANGED signals
    /\ UNCHANGED <<entry, pc, download, raw_df, process_df, is_fitted, history,
                   params, future, forecast_df, insights, sentiment>>

NextClient == ClientFit \/ ClientPredict \/ ClientEvaluate

SpecClient == InitClient /\ [][NextClient]_vars

-----------------------------------------------------------------------------
(* The insight stage of a run: generate_insights on the feature table and  *)
(* the forecast, then the sentiment attachment.                            *)

DaysAhead == 30     \* days_ahead passed by the job and the bot
MaxNews == 2        \* headlines returned by the news feed
MaxDelta == 4       \* forecasts range over 200 - MaxDelta .. 200 + MaxDelta

\* an article: whether it has a title, and VADER's compound score in tenths
Articles ==
    {[title |-> FALSE, compound |-> 0]} \cup
    {[title |-> TRUE, compound |-> c] : c \in {-5, 2, 3}}

NewsLists == UNION {[1..n -> Articles] : n \in 0..MaxNews}

\* where an exception leaves the entry point: the job dies with it, the
\* bot's handler catches it and replies with an error message
Aborted == IF entry = "job" THEN "crashed" ELSE "error_replied"

GenerateInsightsStep ==
    /\ pc = "insights"
    /\ IF Len(process_df) = 0 \/ Len(forecast_df) = 0
       THEN exc' = "IndexError" /\ pc' = Aborted /\ UNCHANGED insights
       ELSE /\ insights' = <<generate_insights(forecast_df, process_df, DaysAhead)>>
            /\ exc' = ""
            /\ pc' = "sentiment"
    /\ UNCHANGED signals
    /\ UNCHANGED <<entry, last_call, download, raw_df, process_df, is_fitted,
                   history, params, future, forecast_df, metrics, sentiment>>

AttachSentimentStep ==
    /\ pc = "sentiment"
    /\ \E news \in NewsLists, news_raises \in BOOLEAN :
          LET s == analyze_gold_headlines(news, news_raises)
          IN  /\ sentiment' = <<s>>
              /\ insights' = <<attach_sentiment(insights[1], s)>>
    /\ pc' = "chart"
    /\ UNCHANGED signals
    /\ UNCHANGED <<entry, exc, last_call, download, raw_df, process_df, is_fitted,
                   history, params, future, forecast_df, metrics>>

WarmRow == FeatureRow(1, Num(200), Num(200), Num(200), Num(50), Num(100), Num(4))

\* feature tables whose latest row is drawn from the boundary values
InsightTables ==
    {<<WarmRow, FeatureRow(2, Num(y), Num(s20), Num(s50), Num(rsi), Num(100), Num(4))>> :
        y \in {-200, 0, 200}, s20 \in {199, 200, 201}, s50 \in {198, 200, 202},
        rsi \in {29, 30, 31, 69, 70, 71}}

\* a run that has fitted the model on its table and predicted DaysAhead days
InitInsight ==
    /\ entry = "job"
    /\ pc = "insights"
    /\ exc = ""
    /\ download = [raises |-> FALSE, rows |-> <<>>]
    /\ raw_df = <<>>
    /\ process_df \in InsightTables
    /\ is_fitted = TRUE
    /\ history = <<process_df>>
    /\ \E m \in (200 - MaxDelta)..(200 + MaxDelta) :
          params = <<[m |-> m, k |-> 0, beta |-> 0]>>
    /\ future = future_frame(Dates(process_df), process_df, DaysAhead)
    /\ forecast_df = ProphetPredict(params[1], future, 1)
    /\ metrics = <<>>
    /\ last_call = [op |-> "predict", df |-> process_df, days |-> DaysAhead]
    /\ insights = <<>>
    /\ sentiment = <<>>
    /\ signals = <<>>

NextInsight == GenerateInsightsStep \/ AttachSentimentStep

SpecInsight == InitInsight /\ [][NextInsight]_vars

-----------------------------------------------------------------------------
(* fetch_all_data and preprocess_data *)

SMA_FAST == 20
SMA_SLOW == 50
RSI_LEN == 14

\* DataFrame.ffill on one column: the last value present at or before row i
FfillAt(rows, i, col) ==
    LET present == {j \in 1..i : ~IsNaN(rows[j][col])}
    IN  IF present = {} THEN NaN
        ELSE rows[CHOOSE j \in present : \A k \in present : k <= j][col]

\* pd.concat of the three Close series on the date index, then ffill
MergedFfilled(rows) ==
    [i \in 1..Len(rows) |->
        [Date |-> i,
         Close |-> FfillAt(rows, i, "Close"),
         USD_Index |-> FfillAt(rows, i, "USD_Index"),
         Treasury_Yield |-> FfillAt(rows, i, "Treasury_Yield")]]

\* fetch_all_data on what yf.download returned (or raised)
fetch_all_data(dl) ==
    IF dl.raises THEN <<>>
    ELSE IF Len(dl.rows) = 0 THEN <<>>
    ELSE LET HasClose(r) == ~IsNaN(r.Close)
         IN  SelectSeq(MergedFfilled(dl.rows), HasClose)

RECURSIVE SumClose(_, _, _)
\* Close[from] + ... + Close[to], for from <= to
SumClose(df, from, to) ==
    IF from = to THEN df[from].Close
    ELSE LET mid == (from + to) \div 2
         IN  FAdd(SumClose(df, from, mid), SumClose(df, mid + 1, to))

\* pandas_ta.sma(Close, length) at row i: NaN on the first length - 1 rows
ta_sma(df, length, i) ==
    IF i < length THEN NaN
    ELSE FDiv(SumClose(df, i - length + 1, i), Num(length))

\* pandas_ta.rsi(Close, length) at row i: 100 * gain / (gain + loss) over
\* Wilder's averages of the rises and falls up to row i; NaN on the first
\* `length` rows and when the price never moved.  With rises and falls both
\* present the value is `mixed`, the average the library computes.
ta_rsi(df, length, i, mixed) ==
    LET rises == \E j \in 2..i : FGt(df[j].Close, df[j - 1].Close)
        falls == \E j \in 2..i : FLt(df[j].Close, df[j - 1].Close)
    IN  IF i <= length THEN NaN
        ELSE IF ~rises /\ ~falls THEN NaN
        ELSE IF ~falls THEN Num(100)
        ELSE IF ~rises THEN Num(0)
        ELSE Num(mixed)

\* df after preprocess_data assigned the indicator columns to it
WithIndicators(df, mixed) ==
    [i \in 1..Len(df) |->
        [Date |-> df[i].Date, Close |-> df[i].Close,
         USD_Index |-> df[i].USD_Index, Treasury_Yield |-> df[i].Treasury_Yield,
         SMA_20 |-> ta_sma(df, SMA_FAST, i),
         SMA_50 |-> ta_sma(df, SMA_SLOW, i),
         RSI_14 |-> ta_rsi(df, RSI_LEN, i, mixed)]]

\* DataFrame.dropna on the processed frame: a row with any null goes
AnyNull(r) ==
    \/ IsNaN(r.y) \/ IsNaN(r.SMA_20) \/ IsNaN(r.SMA_50) \/ IsNaN(r.RSI_14)
    \/ IsNaN(r.USD_Index) \/ IsNaN(r.Treasury_Yield)

\* the table preprocess_data returns
preprocess_data(df, mixed) ==
    IF Len(df) = 0 THEN df
    ELSE LET ind == WithIndicators(df, mixed)
             processed == [i \in 1..Len(ind) |->
                 FeatureRow(ind[i].Date, ind[i].Close, ind[i].SMA_20, ind[i].SMA_50,
                            ind[i].RSI_14, ind[i].USD_Index, ind[i].Treasury_Yield)]
             Complete(r) == ~AnyNull(r)
         IN  SelectSeq(processed, Complete)

-----------------------------------------------------------------------------
(* One run of run_scheduled_job (entry "job"), of the bot's /forecast       *)
(* handler (entry "bot"), of its /price handler (entry "price") or of      *)
(* main.py (entry "main").                                                 *)

MaxRawRows == 3     \* rows of the small downloaded frames
MaxExtra == 2       \* rows of the long frames beyond the SMA_SLOW warm-up
RsiSamples == {25, 50, 75}

RawRow(c, u, t) == [Close |-> c, USD_Index |-> u, Treasury_Yield |-> t]

SmallRows ==
    {RawRow(c, u, t) : c \in {NaN, Num(1), Num(2)}, u \in {NaN, Num(5)}, t \in {NaN, Num(4)}}

\* every frame of up to MaxRawRows rows, gaps included
SmallFrames == UNION {[1..n -> SmallRows] : n \in 0..MaxRawRows}

\* the close of day i of a long frame
PatternClose(pattern, i) ==
    IF pattern = "up" THEN 1000 + i
    ELSE IF pattern = "down" THEN 1000 - i
    ELSE IF pattern = "zigzag" THEN 1000 + (i % 2)
    ELSE 1000

\* frames just short of, at and beyond the warm-up of the slowest indicator
LongFrames ==
    {[i \in 1..n |-> RawRow(Num(PatternClose(pattern, i)), Num(100), Num(4))] :
        n \in (SMA_SLOW - 1)..(SMA_SLOW + MaxExtra),
        pattern \in {"up", "down", "zigzag", "flat"}}

Downloads ==
    {[raises |-> TRUE, rows |-> <<>>]} \cup
    {[raises |-> FALSE, rows |-> f] : f \in SmallFrames \cup LongFrames}

Init ==
    /\ entry \in {"job", "bot", "price", "main"}
    /\ pc = (IF entry = "main" THEN "import" ELSE "fetch")
    /\ exc = ""
    /\ download \in Downloads
    /\ raw_df = <<>>
    /\ process_df = <<>>
    /\ insights = <<>>
    /\ sentiment = <<>>
    /\ signals = <<>>
    /\ InitModel

\* main.py imports fetch_gold_data from src.data_fetcher, which defines
\* fetch_all_data and preprocess_data only: loading main.py raises
\* ImportError before main() is entered
ImportStep ==
    /\ pc = "import"
    /\ exc' = "ImportError: cannot import name 'fetch_gold_data'"
    /\ pc' = "crashed"
    /\ UNCHANGED signals
    /\ UNCHANGED <<entry, last_call, download, raw_df, process_df, is_fitted, history,
                   params, future, forecast_df, metrics, insights, sentiment>>

\* raw_df = fetch_all_data(period="5y") and the emptiness test on it
FetchStep ==
    /\ pc = "fetch"
    /\ raw_df' = fetch_all_data(download)
    /\ pc' = IF Len(raw_df') = 0
             THEN (IF entry = "job" THEN "exit1" ELSE "failure_replied")
             ELSE "preprocess"
    /\ UNCHANGED signals
    /\ UNCHANGED <<entry, exc, last_call, download, process_df, is_fitted, history,
                   params, future, forecast_df, metrics, insights, sentiment>>

\* process_df = preprocess_data(raw_df), which also writes the indicator
\* columns into raw_df
PreprocessStep ==
    /\ pc = "preprocess"
    /\ \E mixed \in RsiSamples :
          /\ process_df' = preprocess_data(raw_df, mixed)
          /\ raw_df' = WithIndicators(raw_df, mixed)
    /\ pc' = (IF entry = "price" THEN "signals" ELSE "fit")
    /\ UNCHANGED signals
    /\ UNCHANGED <<entry, exc, last_call, download, is_fitted, history, params,
                   future, forecast_df, metrics, insights, sentiment>>

\* a run that goes on to predict whether or not fit raised
FitStep_swallowing ==
    /\ pc = "fit"
    /\ \E p \in Params, optimizer_fails \in BOOLEAN : fit(process_df, p, optimizer_fails)
    /\ last_call' = [op |-> "fit", df |-> process_df, days |-> 0]
    /\ pc' = "predict"
    /\ UNCHANGED signals
    /\ UNCHANGED <<entry, download, raw_df, process_df, future, forecast_df,
                   metrics, insights, sentiment>>

\* model = GoldForecastModel(); model.fit(process_df)
FitStep ==
    /\ pc = "fit"
    /\ \E p \in Params, optimizer_fails \in BOOLEAN : fit(process_df, p, optimizer_fails)
    /\ last_call' = [op |-> "fit", df |-> process_df, days |-> 0]
    /\ pc' = IF exc' = "" THEN "predict" ELSE Aborted
    /\ UNCHANGED signals
    /\ UNCHANGED <<entry, download, raw_df, process_df, future, forecast_df,
                   metrics, insights, sentiment>>

\* forecast_df = model.predict(process_df, days_ahead=30)
PredictStep ==
    /\ pc = "predict"
    /\ \E w \in Widths : predict(process_df, DaysAhead, w)
    /\ last_call' = [op |-> "predict", df |-> process_df, days |-> DaysAhead]
    /\ pc' = IF exc' = "" THEN "insights" ELSE Aborted
    /\ UNCHANGED signals
    /\ UNCHANGED <<entry, download, raw_df, process_df, is_fitted, history,
                   params, metrics, insights, sentiment>>

\* generate_forecast_chart, which may fail on the file system
ChartStep ==
    /\ pc = "chart"
    /\ \E chart_raises \in BOOLEAN :
          IF chart_raises
          THEN exc' = "OSError" /\ pc' = Aborted
          ELSE exc' = "" /\ pc' = "alert"
    /\ UNCHANGED signals
    /\ UNCHANGED <<entry, last_call, download, raw_df, process_df, is_fitted,
                   history, params, future, forecast_df, metrics, insights, sentiment>>

\* format_alert_message and the delivery of the message
AlertStep ==
    /\ pc = "alert"
    /\ \E success \in BOOLEAN :
          pc' = IF success THEN "done" ELSE "done_with_errors"
    /\ UNCHANGED signals
    /\ UNCHANGED <<entry, exc, last_call, download, raw_df, process_df, is_fitted,
                   history, params, future, forecast_df, metrics, insights, sentiment>>

\* price_command after preprocess_data: the signals of the latest row, the
\* news sentiment and the reply
PriceSignalsStep ==
    /\ pc = "signals"
    /\ IF Len(process_df) = 0
       THEN exc' = "IndexError" /\ pc' = Aborted /\ UNCHANGED <<signals, sentiment>>
       ELSE /\ signals' = <<price_signals(process_df)>>
            /\ \E news \in NewsLists, news_raises \in BOOLEAN :
                  sentiment' = <<analyze_gold_headlines(news, news_raises)>>
            /\ exc' = ""
            /\ pc' = "replied"
    /\ UNCHANGED <<entry, last_call, download, raw_df, process_df, is_fitted, history,
                   params, future, forecast_df, metrics, insights>>

Next ==
    \/ ImportStep
    \/ FetchStep
    \/ PreprocessStep
    \/ FitStep
    \/ PredictStep
    \/ GenerateInsightsStep
    \/ AttachSentimentStep
    \/ ChartStep
    \/ AlertStep
    \/ PriceSignalsStep

Spec == Init /\ [][Next]_vars

\* a /price command whose feature table ends in a row of boundary values
InitPrice ==
    /\ entry = "price"
    /\ pc = "signals"
    /\ exc = ""
    /\ download = [raises |-> FALSE, rows |-> <<>>]
    /\ raw_df = <<>>
    /\ process_df \in InsightTables
    /\ insights = <<>>
    /\ sentiment = <<>>
    /\ signals = <<>>
    /\ InitModel

NextPrice == PriceSignalsStep

SpecPrice == InitPrice /\ [][NextPrice]_vars

-----------------------------------------------------------------------------
(* Claims on the model lifecycle, under SpecClient *)

\* C1: on an Unfitted model every predict or evaluate call fails with the
\* invalid-model-state error, returns no forecast or metrics table and
\* leaves the model Unfitted.
C1_UnfittedCallsFail ==
    [][(~is_fitted /\ last_call'.op \in {"predict", "evaluate"}) =>
          /\ exc' = (IF last_call'.op = "predict"
                     THEN "ValueError: Model must be fitted before predicting."
                     ELSE "ValueError: Model must be fitted before evaluating.")
          /\ forecast_df' = forecast_df
          /\ future' = future
          /\ metrics' = metrics
          /\ ~is_fitted'
          /\ params' = params]_vars

\* an Unfitted model whose Prophet object already holds a history (its
\* optimizer failed) has just refused a predict call
C1_Witness ==
    /\ ~is_fitted
    /\ history # <<>>
    /\ last_call.op = "predict"
    /\ exc = "ValueError: Model must be fitted before predicting."
    /\ forecast_df = <<>>

\* C2: a Fitted model stays Fitted and keeps the parameters and history of
\* its first fit, whatever is called on it; a second fit does not retrain.
C2_FittedOnceForGood ==
    [][is_fitted => (is_fitted' /\ params' = params /\ history' = history)]_vars

\* a Fitted model has just been asked to fit another table and refused
C2_Witness ==
    /\ is_fitted
    /\ last_call.op = "fit"
    /\ last_call.df # history[1]
    /\ NonNullRows(last_call.df) >= 2
    /\ exc = "Exception: Prophet object can only be fit once"

HasDate(df, d) == \E i \in 1..Len(df) : df[i].ds = d
RowAt(df, d) == df[CHOOSE i \in 1..Len(df) : df[i].ds = d]

\* C4: after a successful predict(table, horizon_days) the regressor frame
\* covers the fitted dates followed by horizon_days daily dates; every date
\* of it that the table holds carries the table's USD_Index and
\* Treasury_Yield of that date, and every date after the table's last date
\* carries the values of the table's last row.
C4_RegressorPolicy ==
    (last_call.op = "predict" /\ exc = "") =>
        LET df == last_call.df
            hist == Dates(history[1])
        IN  /\ Len(future) = Len(hist) + last_call.days
            /\ \A i \in 1..Len(hist) : future[i].ds = hist[i]
            /\ \A j \in 1..last_call.days : future[Len(hist) + j].ds = Last(hist) + j
            /\ \A i \in 1..Len(future) :
                  /\ HasDate(df, future[i].ds) =>
                        /\ future[i].USD_Index = RowAt(df, future[i].ds).USD_Index
                        /\ future[i].Treasury_Yield = RowAt(df, future[i].ds).Treasury_Yield
                  /\ future[i].ds > Last(df).ds =>
                        /\ future[i].USD_Index = Last(df).USD_Index
                        /\ future[i].Treasury_Yield = Last(df).Treasury_Yield

\* a predict over the fitted table with a horizon, where an earlier row's
\* regressors differ from the last row's
C4_Witness ==
    /\ last_call.op = "predict"
    /\ exc = ""
    /\ last_call.days >= 1
    /\ last_call.df = history[1]
    /\ \E i \in 1..Len(last_call.df) :
          last_call.df[i].USD_Index # Last(last_call.df).USD_Index

-----------------------------------------------------------------------------
(* Claims on the insight synthesizer, under SpecInsight *)

LatestRow == Last(process_df)
FinalPoint == Last(forecast_df)

\* C6: when the latest row's price is 0, generate_insights fails hard: no
\* insight record, hence no pct_change or forecast_trend, exists for the run.
C6_ZeroPriceFailsHard ==
    LatestRow.y.n = 0 => insights = <<>>

\* pct_change as the claim defines it, (predicted - current) / current * 100,
\* is the fraction PctNum / PctDen for finite prices
PctNum == 100 * (FinalPoint.yhat.n * LatestRow.y.d - LatestRow.y.n * FinalPoint.yhat.d)
PctDen == FinalPoint.yhat.d * LatestRow.y.n

\* PctNum / PctDen > a / 2 and < a / 2, for PctDen # 0
PctAbove(a) == IF PctDen > 0 THEN 2 * PctNum > a * PctDen ELSE 2 * PctNum < a * PctDen
PctBelow(a) == IF PctDen > 0 THEN 2 * PctNum < a * PctDen ELSE 2 * PctNum > a * PctDen

\* C7: for a price other than 0, forecast_trend is strong bullish iff
\* pct_change > 1.5, slightly bullish iff 0 < pct_change <= 1.5, strong
\* bearish iff pct_change < -1.5 and slightly bearish iff
\* -1.5 <= pct_change <= 0; pct_change is (predicted - current) / current * 100.
C7_ForecastTrend ==
    (insights # <<>> /\ LatestRow.y.n # 0) =>
        LET ins == insights[1]
        IN  /\ IsFinite(ins.pct_change)
            /\ ins.pct_change.n * PctDen = PctNum * ins.pct_change.d
            /\ ins.forecast_trend = "Strong Bullish" <=> PctAbove(3)
            /\ ins.forecast_trend = "Slightly Bullish" <=> (PctAbove(0) /\ ~PctAbove(3))
            /\ ins.forecast_trend = "Strong Bearish" <=> PctBelow(-3)
            /\ ins.forecast_trend = "Slightly Bearish" <=> (~PctAbove(0) /\ ~PctBelow(-3))

\* pct_change is exactly 1.5 and the label is slightly bullish
C7_Witness ==
    /\ insights # <<>>
    /\ LatestRow.y.n # 0
    /\ 2 * PctNum = 3 * PctDen
    /\ insights[1].forecast_trend = "Slightly Bullish"

\* a < b for finite fractions
RatLt(a, b) == a.n * b.d < b.n * a.d

\* C8: (tech_trend, action) is (strong uptrend, buy-or-hold) iff
\* price > SMA20 > SMA50, (strong downtrend, sell) iff price < SMA20 < SMA50,
\* and (consolidating, wait) in every other case; no other pair occurs.
C8_TechTrend ==
    insights # <<>> =>
        LET ins == insights[1]
            up == RatLt(LatestRow.SMA_20, LatestRow.y) /\ RatLt(LatestRow.SMA_50, LatestRow.SMA_20)
            down == RatLt(LatestRow.y, LatestRow.SMA_20) /\ RatLt(LatestRow.SMA_20, LatestRow.SMA_50)
        IN  /\ <<ins.tech_trend, ins.action>> \in
                  {<<"STRONG UPTREND", "BUY / HOLD">>, <<"STRONG DOWNTREND", "SELL">>,
                   <<"CONSOLIDATING", "WAIT">>}
            /\ ins.tech_trend = "STRONG UPTREND" <=> up
            /\ ins.tech_trend = "STRONG DOWNTREND" <=> down
            /\ ins.tech_trend = "CONSOLIDATING" <=> (~up /\ ~down)

\* the price is above SMA20 while SMA20 is below SMA50: consolidating
C8_Witness ==
    /\ insights # <<>>
    /\ RatLt(LatestRow.SMA_20, LatestRow.y)
    /\ RatLt(LatestRow.SMA_20, LatestRow.SMA_50)
    /\ insights[1].tech_trend = "CONSOLIDATING"
    /\ insights[1].action = "WAIT"

\* C9: rsi_signal is oversold iff RSI < 30, overbought iff RSI > 70 and
\* neutral iff 30 <= RSI <= 70, whatever the prices, the SMAs and the forecast.
C9_RsiSignal ==
    insights # <<>> =>
        LET ins == insights[1]
            rsi == LatestRow.RSI_14
        IN  /\ ins.rsi_signal = "OVERSOLD (Consider Buying)" <=> rsi.n < 30 * rsi.d
            /\ ins.rsi_signal = "OVERBOUGHT (Consider Selling)" <=> rsi.n > 70 * rsi.d
            /\ ins.rsi_signal = "NEUTRAL" <=> (rsi.n >= 30 * rsi.d /\ rsi.n <= 70 * rsi.d)

\* RSI is exactly 30 on a row in a strong downtrend and the signal is neutral
C9_Witness ==
    /\ insights # <<>>
    /\ LatestRow.RSI_14 = Num(30)
    /\ insights[1].rsi_signal = "NEUTRAL"
    /\ insights[1].tech_trend = "STRONG DOWNTREND"

SentimentKeys == {"sentiment_label", "sentiment_score", "sentiment_count"}

\* C10: attaching the sentiment changes no field generate_insights set and
\* adds exactly the scorer's label, score and article_count.
C10_SentimentIsInformational ==
    [][(pc = "sentiment" /\ pc' = "chart") =>
          /\ DOMAIN insights'[1] = DOMAIN insights[1] \cup SentimentKeys
          /\ \A key \in DOMAIN insights[1] : insights'[1][key] = insights[1][key]
          /\ insights'[1].sentiment_label = sentiment'[1].label
          /\ insights'[1].sentiment_score = sentiment'[1].score
          /\ insights'[1].sentiment_count = sentiment'[1].article_count
          /\ process_df' = process_df
          /\ forecast_df' = forecast_df]_vars

\* a pessimistic score over two articles is attached to a buy-or-hold record
C10_Witness ==
    /\ pc = "chart"
    /\ insights[1].action = "BUY / HOLD"
    /\ insights[1].sentiment_label = "Pessimistic"
    /\ insights[1].sentiment_count = 2

-----------------------------------------------------------------------------
(* Claims on the alignment and on the run, under Spec *)

\* C3: the table fetch_all_data returns holds no forward-filled target:
\* every row's Close is the raw gold value of that date, and no date on
\* which the raw gold series had no value is in the table.
C3_TargetNeverImputed ==
    pc # "fetch" =>
        \A i \in 1..Len(raw_df) :
            /\ ~IsNaN(download.rows[raw_df[i].Date].Close)
            /\ raw_df[i].Close = download.rows[raw_df[i].Date].Close

\* C5: GoldForecastModel.fit is never called with a zero-row table; a run
\* whose feature table is empty aborts before fitting.
C5_NoFitOnEmptyTable ==
    last_call.op = "fit" => Len(last_call.df) > 0

-----------------------------------------------------------------------------
(* evaluate and the production model, under SpecClient *)

\* C11: evaluate on a Fitted model leaves it Fitted with the parameters and
\* history it had, and a predict that follows evaluate and builds the same
\* future frame as the predict before it returns the same forecast, bounds
\* included.
C11_EvaluateLeavesForecast ==
    [][/\ (is_fitted /\ last_call'.op = "evaluate") =>
              (is_fitted' /\ params' = params /\ history' = history
               /\ future' = future /\ forecast_df' = forecast_df)
       /\ (last_call.op = "evaluate" /\ last_call'.op = "predict"
           /\ exc' = "" /\ future' = future) =>
              forecast_df' = forecast_df]_vars

-----------------------------------------------------------------------------
(* The order of the stages of a run, under Spec *)

\* C12: in every run of the job, of the bot's /forecast handler and of main
\* the stages run one at a time in the order fetch_all_data,
\* preprocess_data, fit, predict, generate_insights: a stage starts only from
\* the stage before it, each table is written by its own stage only,
\* predict is called only on the instance that fit has fitted, and
\* generate_insights only on a forecast that predict has returned.
C12_StagesInOrder ==
    [][/\ pc' = "preprocess" => (pc = "fetch" /\ Len(raw_df') > 0)
       /\ pc' = "fit" => pc = "preprocess"
       /\ pc' = "predict" => (pc = "fit" /\ is_fitted' /\ history' = <<process_df>>)
       /\ pc' = "insights" => (pc = "predict" /\ Len(forecast_df') > 0)
       /\ last_call'.op = "predict" => (is_fitted /\ history = <<process_df>>)
       /\ insights' # <<>> => (Len(forecast_df) > 0 /\ forecast_df' = forecast_df)
       /\ raw_df' # raw_df => pc \in {"fetch", "preprocess"}
       /\ process_df' # process_df => pc = "preprocess"
       /\ (is_fitted' # is_fitted \/ history' # history) => pc = "fit"
       /\ forecast_df' # forecast_df => pc = "predict"
       /\ insights' # insights => pc \in {"insights", "sentiment"}]_vars

\* a run of the bot's handler has gone through the five stages
C12_Witness ==
    /\ entry = "bot"
    /\ pc = "sentiment"
    /\ Len(raw_df) > 0
    /\ Len(process_df) > 0
    /\ is_fitted
    /\ last_call.op = "predict"
    /\ Len(forecast_df) = Len(process_df) + DaysAhead
    /\ insights # <<>>

-----------------------------------------------------------------------------
(* preprocess_data and its input, under Spec *)

\* the run has called preprocess_data
Preprocessed == pc \notin {"import", "fetch", "preprocess"}

\* rows of the aligned table beyond the warm-up of the slowest indicator
LaterRows == IF Len(raw_df) > SMA_SLOW - 1 THEN Len(raw_df) - (SMA_SLOW - 1) ELSE 0

\* C13: preprocess_data drops the first SMA_SLOW - 1 = 49 rows of the aligned
\* table and no others: the output holds every later row, in the same order.
C13_DropsWarmUpOnly ==
    Preprocessed =>
        /\ Len(process_df) = LaterRows
        /\ \A i \in 1..LaterRows :
              LET r == raw_df[i + SMA_SLOW - 1]
              IN  /\ process_df[i].ds = r.Date
                  /\ process_df[i].y = r.Close
                  /\ process_df[i].USD_Index = r.USD_Index
                  /\ process_df[i].Treasury_Yield = r.Treasury_Yield

\* C14: preprocess_data(df) leaves the caller's df as it was (columns, rows
\* and values), and called again on it returns the same table.
C14_PreprocessIsPure ==
    [][pc = "preprocess" =>
          /\ raw_df' = raw_df
          /\ \E mixed \in RsiSamples :
                /\ process_df' = preprocess_data(raw_df, mixed)
                /\ preprocess_data(raw_df', mixed) = process_df']_vars

-----------------------------------------------------------------------------
(* A failed fit, in a run and under a free client *)

\* a run of an entry point, or a client calling the model freely
SpecRunOrClient == (Init \/ InitClient) /\ [][Next \/ NextClient]_vars

InvalidState ==
    {"ValueError: Model must be fitted before predicting.",
     "ValueError: Model must be fitted before evaluating."}

\* C15: a fit call that fails on an Unfitted instance raises to its caller
\* after the one attempt and leaves the instance Unfitted with no fitted
\* parameters; a run ends there, and no insight record exists for it; as long
\* as the instance is Unfitted every predict and evaluate on it fails with
\* the invalid-model-state error and returns nothing.
C15_FailedFitLeavesUnfitted ==
    [][/\ (~is_fitted /\ last_call'.op = "fit" /\ exc' # "") =>
              /\ ~is_fitted'
              /\ params' = <<>>
              /\ insights' = <<>>
              /\ pc # "client" => pc' = Aborted
       /\ (~is_fitted /\ last_call'.op \in {"predict", "evaluate"}) =>
              /\ exc' \in InvalidState
              /\ forecast_df' = <<>>
              /\ metrics' = <<>>
       /\ pc \notin {"crashed", "error_replied"}
       /\ ~is_fitted' => insights' = <<>>]_vars

\* the optimizer failed on the client's first fit, and the evaluate call that
\* followed was refused
C15_Witness ==
    /\ pc = "client"
    /\ ~is_fitted
    /\ history # <<>>
    /\ params = <<>>
    /\ last_call.op = "evaluate"
    /\ exc = "ValueError: Model must be fitted before evaluating."
    /\ metrics = <<>>

-----------------------------------------------------------------------------
(* /price against generate_insights, under SpecPrice *)

\* the category a momentum label stands for
RsiCategory(label) ==
    IF label = "OVERSOLD (Consider Buying)" THEN "oversold"
    ELSE IF label = "OVERBOUGHT (Consider Selling)" THEN "overbought"
    ELSE IF label = "NEUTRAL" THEN "neutral"
    ELSE "none"

\* the category a (trend, action) pair stands for
TrendCategory(tech_trend, action) ==
    IF tech_trend = "STRONG UPTREND" /\ action = "BUY / HOLD" THEN "uptrend"
    ELSE IF tech_trend = "STRONG DOWNTREND" /\ action = "SELL" THEN "downtrend"
    ELSE IF tech_trend = "CONSOLIDATING" /\ action = "WAIT" THEN "consolidating"
    ELSE "none"

\* the forecast price_command would have to make up to call generate_insights
MockForecast ==
    <<[ds |-> 0, yhat |-> Num(0), yhat_lower |-> Num(0), yhat_upper |-> Num(0)]>>

\* C16: for the latest row of the feature table, the momentum category and
\* the (trend, action) category in price_command's reply are the ones
\* generate_insights computes for that row.
C16_PriceMatchesInsights ==
    signals # <<>> =>
        LET g == generate_insights(MockForecast, process_df, DaysAhead)
            s == signals[1]
        IN  /\ RsiCategory(s.rsi_signal) = RsiCategory(g.rsi_signal)
            /\ RsiCategory(s.rsi_signal) # "none"
            /\ TrendCategory(s.tech_trend, s.action) = TrendCategory(g.tech_trend, g.action)
            /\ TrendCategory(s.tech_trend, s.action) # "none"

\* /price has replied on a row just past the overbought boundary, in a
\* downtrend
C16_Witness ==
    /\ pc = "replied"
    /\ signals # <<>>
    /\ signals[1].rsi_14 = Num(RsiOverbought + 1)
    /\ signals[1].rsi_signal = "OVERBOUGHT (Consider Selling)"
    /\ signals[1].tech_trend = "STRONG DOWNTREND"
    /\ signals[1].action = "SELL"

====
